---------------------------- MODULE Spec2Model ----------------------------
(***************************************************************************)
(* Model of the Merkle tree of src/src/mt.rs (build, root, leaves, proof)  *)
(* and of the constructor of the whitelist manager of                      *)
(* src/src/blockchain.rs.                                                  *)
(*                                                                         *)
(* Conventions.                                                            *)
(*  - A hex string is a sequence of one-character strings.                 *)
(*  - A Hash (Vec<u8>) is a sequence of integers.  keccak256 is modelled   *)
(*    as a collision-free function: the digest of x is x prefixed by its   *)
(*    length, so that digests are self-delimiting and the concatenation of *)
(*    two digests determines both (as it does for two 32-byte values).     *)
(*    Digests are ordered as Rust orders Vec<u8>: lexicographically.       *)
(*  - Rust indices are 0-based; At(s, i) reads s[i] of the Rust code.      *)
(***************************************************************************)
EXTENDS Integers, Sequences, FiniteSets, TLC

(***************************************************************************)
(* Bounds of the model.                                                    *)
(***************************************************************************)
\* generated value lists have 0 .. MaxLeaves values
MaxLeaves == 16
\* generated value lists start at offsets 0 .. MaxStart of the value pool
MaxStart == 1
\* every list of at most MaxSmallLen values over SmallPool is an input
MaxSmallLen == 3
\* known indices run up to len(nodes) + MaxOver
MaxOver == 2

(***************************************************************************)
(* Hexadecimal decoding: hex::FromHex, used by hash_leaf.                  *)
(***************************************************************************)
HexLower == <<"0", "1", "2", "3", "4", "5", "6", "7", "8", "9",
              "a", "b", "c", "d", "e", "f">>

HexUpper == <<"A", "B", "C", "D", "E", "F">>

\* the value of one hex character, -1 when it is none
Nibble(c) ==
    IF \E i \in 1..16 : HexLower[i] = c
    THEN (CHOOSE i \in 1..16 : HexLower[i] = c) - 1
    ELSE IF \E i \in 1..6 : HexUpper[i] = c
         THEN (CHOOSE i \in 1..6 : HexUpper[i] = c) + 9
         ELSE -1

\* Vec::from_hex(value): Ok(bytes) or Err (odd length, invalid character)
from_hex(value) ==
    IF Len(value) % 2 = 0 /\ \A k \in 1..Len(value) : Nibble(value[k]) >= 0
    THEN [ok |-> TRUE,
          bytes |-> [k \in 1..(Len(value) \div 2) |->
                        16 * Nibble(value[2 * k - 1]) + Nibble(value[2 * k])]]
    ELSE [ok |-> FALSE, bytes |-> <<>>]

\* slice.to_hex(): lowercase hex of a byte sequence
to_hex(bytes) ==
    [k \in 1..(2 * Len(bytes)) |->
        IF k % 2 = 1 THEN HexLower[(bytes[(k + 1) \div 2] \div 16) + 1]
                     ELSE HexLower[(bytes[k \div 2] % 16) + 1]]

(***************************************************************************)
(* Hashing.                                                                *)
(***************************************************************************)
keccak256(bytes) == <<Len(bytes)>> \o bytes

\* hash_leaf(value): the digest, or a panic on .expect("Invalid hex string")
hash_leaf(value) ==
    LET a == from_hex(value)
    IN  IF a.ok THEN [ok |-> TRUE, hash |-> keccak256(a.bytes)]
                ELSE [ok |-> FALSE, hash |-> <<>>]

\* Ord of Vec<u8>: lexicographic, a proper prefix first
VecLess(a, b) ==
    \E k \in 1..(Len(b)) :
        /\ k <= Len(a) + 1
        /\ \A j \in 1..(k - 1) : a[j] = b[j]
        /\ (k = Len(a) + 1 \/ a[k] < b[k])

RECURSIVE InsertSorted(_, _)
InsertSorted(s, x) ==
    IF s = <<>> THEN <<x>>
    ELSE IF VecLess(x, s[Len(s)])
         THEN Append(InsertSorted(SubSeq(s, 1, Len(s) - 1), x), s[Len(s)])
         ELSE Append(s, x)

\* slice.sort(): stable, ascending
RECURSIVE SortVec(_)
SortVec(s) ==
    IF s = <<>> THEN <<>>
    ELSE InsertSorted(SortVec(SubSeq(s, 1, Len(s) - 1)), s[Len(s)])

\* Option<&Hash>
None == [some |-> FALSE, v |-> <<>>]
Some(h) == [some |-> TRUE, v |-> h]


\* a variant that hashes a node that has no sibling instead of carrying it up
hash_internal_nodes_rehash(left, right, sort) ==
    IF right.some
    THEN LET p == IF sort THEN SortVec(<<left, right.v>>) ELSE <<left, right.v>>
         IN  keccak256(p[1] \o p[2])
    ELSE keccak256(left)

hash_internal_nodes(left, right, sort) ==
    IF right.some
    THEN LET p == IF sort THEN SortVec(<<left, right.v>>) ELSE <<left, right.v>>
         IN  keccak256(p[1] \o p[2])
    ELSE left

(***************************************************************************)
(* Building the tree.                                                      *)
(***************************************************************************)
build_upper_level(nodes, sort) ==
    LET n == Len(nodes)
        row == [k \in 1..((n + 1) \div 2) |->
                   IF 2 * k <= n
                   THEN hash_internal_nodes(nodes[2 * k - 1], Some(nodes[2 * k]), sort)
                   ELSE hash_internal_nodes(nodes[2 * k - 1], None, sort)]
    IN  IF Len(row) > 1 /\ Len(row) % 2 # 0
        THEN Append(row, row[Len(row)])
        ELSE row

\* nodes[start .. start + row.len()].clone_from_slice(row)
WriteRow(nodes, start, row) ==
    [i \in 1..Len(nodes) |->
        IF i - 1 >= start /\ i - 1 < start + Len(row)
        THEN row[i - start]
        ELSE nodes[i]]

\* the while loop of build_internal_nodes and the final nodes[0] = parents.remove(0)
RECURSIVE BuildLoop(_, _, _, _)
BuildLoop(nodes, parents, upper_level_start, sort) ==
    IF Len(parents) > 1
    THEN LET p == build_upper_level(parents, sort)
             s == upper_level_start - Len(p)
         IN  BuildLoop(WriteRow(nodes, s, p), p, s, sort)
    ELSE [nodes EXCEPT ![1] = parents[1]]

build_internal_nodes(nodes, count_internal_nodes, sort) ==
    LET parents == build_upper_level(
                       SubSeq(nodes, count_internal_nodes + 1, Len(nodes)), sort)
        upper_level_start == count_internal_nodes - Len(parents)
    IN  BuildLoop(WriteRow(nodes, upper_level_start, parents),
                  parents, upper_level_start, sort)

\* utils::next_power_of_2: the least power of two that is >= n
RECURSIVE PowerOfTwoFrom(_, _)
PowerOfTwoFrom(n, p) == IF p >= n THEN p ELSE PowerOfTwoFrom(n, 2 * p)

next_power_of_2(n) == PowerOfTwoFrom(n, 1)


\* a variant that reserves one slot too many
calculate_internal_nodes_count_plus(count_leaves) == next_power_of_2(count_leaves)

calculate_internal_nodes_count(count_leaves) == next_power_of_2(count_leaves) - 1

build_from_leaves(leaves, sort) ==
    LET count_leaves == Len(leaves)
        count_internal_nodes == calculate_internal_nodes_count(count_leaves)
        nodes == [i \in 1..(count_internal_nodes + count_leaves) |->
                     IF i <= count_internal_nodes THEN <<>>
                     ELSE leaves[i - count_internal_nodes]]
    IN  [sort |-> sort,
         nodes |-> build_internal_nodes(nodes, count_internal_nodes, sort),
         count_internal_nodes |-> count_internal_nodes,
         count_leaves |-> count_leaves]

NoTree == [sort |-> FALSE, nodes |-> <<>>, count_internal_nodes |-> 0,
           count_leaves |-> 0]


\* a variant that keeps the leaves in the order of the values
build_with_hasher_unsorted(vals, sort) ==
    IF ~(Len(vals) > 1)
    THEN [result |-> "panic", tree |-> NoTree]
    ELSE IF \E k \in 1..Len(vals) : ~hash_leaf(vals[k]).ok
         THEN [result |-> "panic", tree |-> NoTree]
         ELSE LET hashed == [k \in 1..Len(vals) |-> hash_leaf(vals[k]).hash]
              IN  [result |-> "ok", tree |-> build_from_leaves(hashed, sort)]

\* MerkleTree::build / build_with_hasher: the tree, or a panic (the assert on
\* the number of values, the expect of hash_leaf)
build_with_hasher(vals, sort) ==
    IF ~(Len(vals) > 1)
    THEN [result |-> "panic", tree |-> NoTree]
    ELSE IF \E k \in 1..Len(vals) : ~hash_leaf(vals[k]).ok
         THEN [result |-> "panic", tree |-> NoTree]
         ELSE LET hashed == [k \in 1..Len(vals) |-> hash_leaf(vals[k]).hash]
                  leaves == IF sort THEN SortVec(hashed) ELSE hashed
              IN  [result |-> "ok", tree |-> build_from_leaves(leaves, sort)]

\* the Rust element s[i], i counted from 0
At(s, i) == s[i + 1]

root_hash(t) == At(t.nodes, 0)

root_hash_str(t) == to_hex(At(t.nodes, 0))

leaves(t) == SubSeq(t.nodes, t.count_internal_nodes + 1, Len(t.nodes))

(***************************************************************************)
(* MerkleTree::proof.                                                      *)
(***************************************************************************)
\* the value of pair_index before the loop has computed one
NoPair == -1

\* nodes.iter().position(|r| r == h): the first position in the whole array
position(nodes, h) ==
    (CHOOSE i \in 1..Len(nodes) :
        nodes[i] = h /\ \A j \in 1..(i - 1) : nodes[j] # h) - 1

\* lines 161-165: the index the traversal starts from
lookup_index(t, leaf, index) ==
    IF index = -1
    THEN IF \E i \in 1..Len(leaves(t)) : leaves(t)[i] = hash_leaf(leaf).hash
         THEN position(t.nodes, hash_leaf(leaf).hash)
         ELSE index
    ELSE index


\* a variant that takes index - 1 for an odd index and index + 1 for an even one
pair_index_of_swapped(index) ==
    LET is_right_node == index % 2
    IN  IF is_right_node = 0 THEN index + 1 ELSE index - 1

pair_index_of(index) ==
    LET is_right_node == index % 2
    IN  IF is_right_node = 0 THEN index - 1 ELSE index + 1

parent_index_of(index) == (index - 1) \div 2

\* one iteration of the while loop
proof_step(nodes, index, proof) ==
    LET pair == pair_index_of(index)
    IN  [pair_index |-> pair,
         proof |-> IF pair >= 0 /\ pair < Len(nodes)
                   THEN Append(proof, At(nodes, pair))
                   ELSE proof,
         index |-> parent_index_of(index)]

(***************************************************************************)
(* Inputs.                                                                 *)
(***************************************************************************)
\* the hex string of one byte; letters in upper case when upper
HexOfByte(b, upper) ==
    LET digit(d) == IF upper /\ d >= 10 THEN HexUpper[d - 9] ELSE HexLower[d + 1]
    IN  <<digit(b \div 16), digit(b % 16)>>

\* value j of the pool: distinct bytes, not in ascending order
PoolValue(j) == HexOfByte((j * 89 + 5) % 256, j % 2 = 1)

Strides == {1, 5}

\* a modulus below the list length repeats values
Moduli == {4, 32}

GenList(n, start, stride, modulus) ==
    [k \in 1..n |-> PoolValue((start + (k - 1) * stride) % modulus)]

GenLists ==
    {GenList(n, start, stride, modulus) :
        n \in 0..MaxLeaves, start \in 0..MaxStart,
        stride \in Strides, modulus \in Moduli}

\* two spellings of one byte, another byte, and a string that is not hex
SmallPool == {<<"0", "a">>, <<"0", "A">>, <<"f", "1">>, <<"z", "z">>}

SmallLists == UNION {[1..n -> SmallPool] : n \in 0..MaxSmallLen}

Inputs == SmallLists \cup GenLists

\* a valid value that no input list holds, and a string of odd length
AbsentValue == <<"e", "e", "e", "e">>
BadValue == <<"a", "b", "c">>

(***************************************************************************)
(* State.                                                                  *)
(***************************************************************************)
VARIABLES
    values,      \* the values handed to build
    sortFlag,    \* the sort argument of build
    built,       \* whether build has returned a tree
    tree,        \* the MerkleTree
    pc,          \* proof: "idle", "loop" (inside the while loop), "done"
    leaf,        \* proof's leaf argument
    known,       \* proof's index argument (-1: none)
    index,       \* proof's local index
    pair_index,  \* proof's local pair_index, NoPair before the first iteration
    proof,       \* proof's local proof; the returned sequence when pc = "done"
    mgr,         \* the ContractIwf, constructed or not
    panic        \* "none", or the operation that aborted the process

vars == <<values, sortFlag, built, tree, pc, leaf, known, index, pair_index,
          proof, mgr, panic>>

treeVars == <<values, sortFlag, built, tree>>
proofVars == <<pc, leaf, known, index, pair_index, proof>>

NoManager == [constructed |-> FALSE, whitelist_addresses |-> <<>>,
              root_hash |-> <<>>, mt |-> NoTree]

Init ==
    /\ values \in Inputs
    /\ sortFlag \in BOOLEAN
    /\ built = FALSE
    /\ tree = NoTree
    /\ pc = "idle"
    /\ leaf = <<>>
    /\ known = -1
    /\ index = -1
    /\ pair_index = NoPair
    /\ proof = <<>>
    /\ mgr = NoManager
    /\ panic = "none"

\* MerkleTree::build(values, sort)
Build ==
    /\ panic = "none"
    /\ ~built
    /\ LET r == build_with_hasher(values, sortFlag)
       IN  IF r.result = "ok"
           THEN /\ built' = TRUE
                /\ tree' = r.tree
                /\ panic' = panic
           ELSE /\ built' = FALSE
                /\ tree' = tree
                /\ panic' = "build"
    /\ UNCHANGED <<values, sortFlag, mgr>>
    /\ UNCHANGED proofVars

\* the arguments proof is called with: a lookup by value, or a known index
\* with the value stored there (any value when no leaf is stored there)
ValueAt(t, vals, k) ==
    IF k >= t.count_internal_nodes /\ k < Len(t.nodes)
       /\ \E j \in 1..Len(vals) : hash_leaf(vals[j]).hash = At(t.nodes, k)
    THEN CHOOSE v \in {vals[j] : j \in 1..Len(vals)} :
             hash_leaf(v).hash = At(t.nodes, k)
    ELSE AbsentValue

ProofArgs ==
    {<<v, -1>> : v \in {values[j] : j \in 1..Len(values)} \cup {AbsentValue, BadValue}}
    \cup {<<ValueAt(tree, values, k), k>> :
             k \in ((0 - MaxOver)..(Len(tree.nodes) + MaxOver)) \ {-1}}

\* proof(leaf, index) up to the while loop: lines 160-170
ProofCall ==
    /\ panic = "none"
    /\ built
    /\ pc \in {"idle", "done"}
    /\ \E a \in ProofArgs :
        /\ leaf' = a[1]
        /\ known' = a[2]
        /\ IF a[2] = -1 /\ ~hash_leaf(a[1]).ok
           THEN /\ panic' = "proof"
                /\ UNCHANGED <<pc, index, pair_index, proof>>
           ELSE LET i == lookup_index(tree, a[1], a[2])
                IN  /\ panic' = panic
                    /\ index' = i
                    /\ pair_index' = NoPair
                    /\ proof' = <<>>
                    /\ pc' = IF i <= -1 THEN "done" ELSE "loop"
    /\ UNCHANGED treeVars
    /\ UNCHANGED mgr

\* one iteration of while index != 0: lines 171-180
ProofStep ==
    /\ panic = "none"
    /\ pc = "loop"
    /\ index # 0
    /\ LET s == proof_step(tree.nodes, index, proof)
       IN  /\ pair_index' = s.pair_index
           /\ proof' = s.proof
           /\ index' = s.index
    /\ UNCHANGED <<pc, leaf, known, mgr, panic>>
    /\ UNCHANGED treeVars

\* the loop ends and proof is returned: lines 171, 182
ProofReturn ==
    /\ panic = "none"
    /\ pc = "loop"
    /\ index = 0
    /\ pc' = "done"
    /\ UNCHANGED <<leaf, known, index, pair_index, proof, mgr, panic>>
    /\ UNCHANGED treeVars

\* ContractIwf::new: the struct is built with mt: MerkleTree::build(&[], true)
ManagerNew ==
    /\ panic = "none"
    /\ ~mgr.constructed
    /\ LET r == build_with_hasher(<<>>, TRUE)
       IN  IF r.result = "ok"
           THEN /\ mgr' = [constructed |-> TRUE, whitelist_addresses |-> <<>>,
                           root_hash |-> <<>>, mt |-> r.tree]
                /\ panic' = panic
           ELSE /\ mgr' = mgr
                /\ panic' = "new"
    /\ UNCHANGED treeVars
    /\ UNCHANGED proofVars

Next ==
    \/ Build
    \/ ProofCall
    \/ ProofStep
    \/ ProofReturn
    \/ ManagerNew

Spec == Init /\ [][Next]_vars

(***************************************************************************)
(* Helpers of the properties.                                              *)
(***************************************************************************)
IsPowerOfTwo(m) == \E e \in 0..m : 2 ^ e = m

\* no digest has this form
Mismatch == <<-1>>

\* the verifier's replay: from hash cur at index i, consuming pf upward.  An
\* odd index is a left child (its sibling i + 1 is hashed on the right), an
\* even index a right child; a sibling outside the array consumes nothing.
RECURSIVE Replay(_, _, _, _, _)
Replay(len, sort, cur, i, pf) ==
    IF i = 0
    THEN IF pf = <<>> THEN cur ELSE Mismatch
    ELSE LET sib == IF i % 2 = 1 THEN i + 1 ELSE i - 1
         IN  IF sib >= 0 /\ sib < len
             THEN IF pf = <<>>
                  THEN Mismatch
                  ELSE Replay(len, sort,
                              IF i % 2 = 1
                              THEN hash_internal_nodes(cur, Some(Head(pf)), sort)
                              ELSE hash_internal_nodes(Head(pf), Some(cur), sort),
                              (i - 1) \div 2, Tail(pf))
             ELSE Replay(len, sort, cur, (i - 1) \div 2, pf)

\* the sequence proof returns when its loop starts at index i
RECURSIVE ProofFrom(_, _, _)
ProofFrom(nodes, i, acc) ==
    IF i = 0 THEN acc
    ELSE LET s == proof_step(nodes, i, acc)
         IN  ProofFrom(nodes, s.index, s.proof)

\* whether the hash of value v is one of the leaves of t
IsLeafOf(t, v) ==
    /\ hash_leaf(v).ok
    /\ \E k \in 1..Len(leaves(t)) : leaves(t)[k] = hash_leaf(v).hash

\* the absolute position of the first leaf of t that is the hash of v
FirstLeafPos(t, v) ==
    t.count_internal_nodes - 1
    + (CHOOSE k \in 1..Len(leaves(t)) :
          /\ leaves(t)[k] = hash_leaf(v).hash
          /\ \A j \in 1..(k - 1) : leaves(t)[j] # hash_leaf(v).hash)

Swap(s, i, j) == [s EXCEPT ![i] = s[j], ![j] = s[i]]

\* all permutations are tried on lists of at most MaxPermLen values
MaxPermLen == 4

Rearrangements(s) ==
    {Swap(s, i, j) : i \in 1..Len(s), j \in 1..Len(s)}
    \cup (IF Len(s) <= MaxPermLen
          THEN {[k \in 1..Len(s) |-> s[f[k]]] : f \in Permutations(1..Len(s))}
          ELSE {})

\* whether some value of the list is not hexadecimal
HasBadHex(vals) == \E k \in 1..Len(vals) : ~from_hex(vals[k]).ok

\* a proof call has been made and is running or has returned
ProofCalled == pc \in {"loop", "done"}

(***************************************************************************)
(* C1.  Proof soundness: for every leaf of the built tree at absolute      *)
(* index k, replaying hash_internal_nodes upward from the leaf's hash with *)
(* the sequence proof(leaf, k) returned reconstructs the root.             *)
(***************************************************************************)
C1_ProofSoundness ==
    (/\ pc = "done"
     /\ known >= tree.count_internal_nodes
     /\ known < Len(tree.nodes))
    => Replay(Len(tree.nodes), tree.sort, At(tree.nodes, known), known, proof)
       = root_hash(tree)

(***************************************************************************)
(* C2.  Bad input to build (fewer than two values, or a value that is not  *)
(* hexadecimal) is reported as an error value and never aborts the         *)
(* process, and no tree is produced.                                       *)
(***************************************************************************)
C2_BadInputIsError ==
    (Len(values) < 2 \/ HasBadHex(values)) => (panic # "build" /\ ~built)

(***************************************************************************)
(* C3.  A proof call whose known index is out of range (below -1, or at    *)
(* least len(nodes)), or that gives no index and a hexadecimal value whose *)
(* hash is no leaf, returns the empty sequence and does not abort.         *)
(***************************************************************************)
C3_OutOfRangeEmpty ==
    (/\ ProofCalled \/ panic = "proof"
     /\ \/ known < -1
        \/ known >= Len(tree.nodes)
        \/ (known = -1 /\ from_hex(leaf).ok /\ ~IsLeafOf(tree, leaf)))
    => (panic # "proof" /\ (pc = "done" => proof = <<>>))

(***************************************************************************)
(* C4.  Layout sizes: after a successful build over n >= 2 values the      *)
(* number of internal slots is (the least power of two >= n) - 1, the leaf *)
(* count is n, and the array holds internal slots + n nodes.               *)
(***************************************************************************)
C4_LayoutSizes ==
    built =>
        LET n == Len(values)
            ic == tree.count_internal_nodes
        IN  /\ n >= 2
            /\ IsPowerOfTwo(ic + 1)
            /\ ic + 1 >= n
            /\ ic + 1 < 2 * n
            /\ tree.count_leaves = n
            /\ Len(tree.nodes) = ic + n
            /\ Len(leaves(tree)) = n

C4_Witness ==
    /\ built
    /\ Len(values) = 5
    /\ tree.count_internal_nodes = 7
    /\ Len(tree.nodes) = 12

(***************************************************************************)
(* C5.  Whitelist manager: construction yields a manager with an empty     *)
(* address list, and the manager holds the tree built with sort = true     *)
(* from its address list, with the stored root the tree's hex root.        *)
(***************************************************************************)
C5_ManagerHoldsTree ==
    /\ panic # "new"
    /\ mgr.constructed =>
          /\ mgr.mt = build_with_hasher(mgr.whitelist_addresses, TRUE).tree
          /\ (mgr.whitelist_addresses # <<>> =>
                 mgr.root_hash = root_hash_str(mgr.mt))

(***************************************************************************)
(* C6.  Single-child carry-up: when the number of leaves is odd, the last  *)
(* leaf is stored unchanged in the row above the leaves; for three leaves  *)
(* [A, B, C] the root is hashPair(hashPair(A, B), C) and C is the second   *)
(* node of the row above the leaves.                                       *)
(***************************************************************************)
C6_CarryUp ==
    (built /\ tree.count_leaves % 2 = 1) =>
        LET n == tree.count_leaves
            ic == tree.count_internal_nodes
            L == leaves(tree)
            half == (n + 1) \div 2
            rowLen == IF half > 1 /\ half % 2 = 1 THEN half + 1 ELSE half
        IN  /\ At(tree.nodes, ic - rowLen + half - 1) = L[n]
            /\ n = 3 =>
                  /\ At(tree.nodes, 2) = L[3]
                  /\ At(tree.nodes, 1)
                     = hash_internal_nodes(L[1], Some(L[2]), tree.sort)
                  /\ root_hash(tree)
                     = hash_internal_nodes(
                           hash_internal_nodes(L[1], Some(L[2]), tree.sort),
                           Some(L[3]), tree.sort)

C6_Witness ==
    /\ built
    /\ tree.count_leaves = 3
    /\ At(tree.nodes, 2) = At(tree.nodes, 5)
    /\ At(tree.nodes, 0) # At(tree.nodes, 2)

(***************************************************************************)
(* C7.  Sort invariance: with sort = true every rearrangement of the       *)
(* values builds the same root and the same leaves, and the leaves are in  *)
(* ascending order.                                                        *)
(***************************************************************************)
C7_SortInvariance ==
    (built /\ sortFlag /\ pc = "idle" /\ panic = "none") =>
        /\ \A k \in 1..(Len(leaves(tree)) - 1) :
              ~VecLess(leaves(tree)[k + 1], leaves(tree)[k])
        /\ \A w \in Rearrangements(values) :
              LET r == build_with_hasher(w, TRUE)
              IN  /\ r.result = "ok"
                  /\ root_hash(r.tree) = root_hash(tree)
                  /\ leaves(r.tree) = leaves(tree)

C7_Witness ==
    /\ built
    /\ sortFlag
    /\ Len(values) >= 3
    /\ leaves(tree) # [k \in 1..Len(values) |-> hash_leaf(values[k]).hash]
    /\ \E k \in 1..(Len(values) - 1) :
          VecLess(leaves(tree)[k], leaves(tree)[k + 1])

(***************************************************************************)
(* C8.  Sibling selection in the proof traversal.  As claimed: at a step   *)
(* with index i > 0 the sibling examined is i - 1 when i is odd and i + 1  *)
(* when i is even; it is appended exactly when it lies inside the array,   *)
(* and the next index is floor((i - 1) / 2).                               *)
(***************************************************************************)
C8_Original ==
    [][(pc = "loop" /\ index > 0 /\ index' # index) =>
          /\ pair_index' = IF index % 2 = 1 THEN index - 1 ELSE index + 1
          /\ proof' = IF pair_index' >= 0 /\ pair_index' < Len(tree.nodes)
                      THEN Append(proof, At(tree.nodes, pair_index'))
                      ELSE proof
          /\ index' = (index - 1) \div 2]_vars

(***************************************************************************)
(* C8, amended.  At a step with index i > 0 the sibling examined is i + 1  *)
(* when i is odd and i - 1 when i is even; it is appended exactly when it  *)
(* lies inside the array, and the next index is floor((i - 1) / 2).        *)
(***************************************************************************)
C8_SiblingSelection ==
    [][(pc = "loop" /\ index > 0 /\ index' # index) =>
          /\ pair_index' = IF index % 2 = 1 THEN index + 1 ELSE index - 1
          /\ proof' = IF pair_index' >= 0 /\ pair_index' < Len(tree.nodes)
                      THEN Append(proof, At(tree.nodes, pair_index'))
                      ELSE proof
          /\ index' = (index - 1) \div 2]_vars

\* two steps taken from an odd leaf index whose sibling lies outside the
\* array: the first appended nothing, the second the sibling at index - 1
C8_Witness ==
    /\ pc = "loop"
    /\ known = Len(tree.nodes) - 1
    /\ known % 2 = 1
    /\ index = (((known - 1) \div 2) - 1) \div 2
    /\ pair_index = ((known - 1) \div 2) - 1
    /\ proof = <<At(tree.nodes, pair_index)>>

(***************************************************************************)
(* C9.  Layout consistency: after a successful build, every index i whose  *)
(* child positions 2i+1 and 2i+2 both lie inside the array holds           *)
(* hashPair(nodes[2i+1], nodes[2i+2]).                                     *)
(***************************************************************************)
C9_LayoutConsistency ==
    built =>
        \A i \in 0..(Len(tree.nodes) - 1) :
            2 * i + 2 < Len(tree.nodes) =>
                At(tree.nodes, i)
                = hash_internal_nodes(At(tree.nodes, 2 * i + 1),
                                      Some(At(tree.nodes, 2 * i + 2)), tree.sort)

(***************************************************************************)
(* C10.  Leaf lookup by value: with no known index and a value whose hash  *)
(* is a leaf, the traversal starts from the position of the first match in *)
(* the leaf region, and the sequence returned is the one proof returns for *)
(* that position as known index.                                           *)
(***************************************************************************)
C10_LookupInLeafRegion ==
    (ProofCalled /\ known = -1 /\ IsLeafOf(tree, leaf)) =>
        /\ (pc = "loop" /\ pair_index = NoPair) =>
               /\ index >= tree.count_internal_nodes
               /\ index = FirstLeafPos(tree, leaf)
        /\ pc = "done" =>
               proof = ProofFrom(tree.nodes, FirstLeafPos(tree, leaf), <<>>)

=============================================================================
